---- MODULE Spec2Model ----
(***************************************************************************)
(* A model of main.py: two function definitions (greet, calculate_sum)     *)
(* and an entry block, guarded by __name__ == "__main__", that prints four *)
(* lines.  A run is one load of the module by a Python interpreter, either *)
(* as the program ("__main__") or by import; NumRuns independent runs are  *)
(* modelled, each with its own command line, so that runs can be compared. *)
(* Text is modelled as TLA+ strings (sequences of characters).             *)
(***************************************************************************)
EXTENDS Integers, Sequences, FiniteSets, TLC

NumRuns == 2 \* independent loads of the module
MaxLen  == 3 \* longest list a library client passes to calculate_sum
MaxVal  == 2 \* largest integer in such a list (the smallest is -1)

Runs == 1..NumRuns

VARIABLES
  modname,   \* modname[r]: the value of __name__ in run r
  argv,      \* argv[r]: the command line of run r (never read by the code)
  pc,        \* pc[r]: the line of the next statement of run r, or "done"
  bound,     \* bound[r]: the names bound in the module namespace so far
  numbers,   \* numbers[r]: the list bound to `numbers` (line 12)
  squares,   \* squares[r]: the list bound to `squares` (line 16)
  person,    \* person[r]: the dict bound to `person` (lines 20-24)
  stdout,    \* stdout[r]: the text written to standard output so far
  calls,     \* calls[r]: the calls of greet / calculate_sum made so far
  executed,  \* executed[r]: the statements executed so far, in order
  request,   \* the calls a library client issues after `import main`
  response   \* the values returned to that client, one per served request

vars == <<modname, argv, pc, bound, numbers, squares, person, stdout, calls,
          executed, request, response>>

runVars == <<modname, argv, pc, bound, numbers, squares, person, stdout,
             calls, executed>>

-----------------------------------------------------------------------------
(* Python's text conversions, as far as the program uses them.             *)

Digits == <<"0", "1", "2", "3", "4", "5", "6", "7", "8", "9">>

RECURSIVE NatStr(_)
NatStr(n) ==
  IF n < 10 THEN Digits[n + 1] ELSE NatStr(n \div 10) \o Digits[(n % 10) + 1]

\* str(int): decimal digits, with a leading minus sign when negative.
IntStr(n) == IF n < 0 THEN "-" \o NatStr(0 - n) ELSE NatStr(n)

RECURSIVE HasChar(_, _)
HasChar(text, c) ==
  IF text = "" THEN FALSE
  ELSE IF Head(text) = c THEN TRUE ELSE HasChar(Tail(text), c)

RECURSIVE Escaped(_, _)
Escaped(text, quote) ==
  IF text = "" THEN ""
  ELSE LET c == Head(text)
           e == IF c = "\\" THEN "\\\\"
                ELSE IF c = quote THEN "\\" \o quote
                ELSE IF c = "\n" THEN "\\n"
                ELSE c
       IN e \o Escaped(Tail(text), quote)

\* repr(str): single quotes, unless the text holds a single quote and no
\* double quote; backslash, the chosen quote and newline are escaped.
StrRepr(text) ==
  LET quote == IF HasChar(text, "'") /\ ~HasChar(text, "\"") THEN "\"" ELSE "'"
  IN quote \o Escaped(text, quote) \o quote

\* A Python value of the two types the dict holds.
PyStr(text) == [type |-> "str", val |-> text]
PyInt(n)    == [type |-> "int", val |-> n]

ValueRepr(v) == IF v.type = "str" THEN StrRepr(v.val) ELSE IntStr(v.val)

RECURSIVE Join(_, _)
Join(sep, texts) ==
  IF texts = <<>> THEN ""
  ELSE IF Len(texts) = 1 THEN texts[1]
  ELSE texts[1] \o sep \o Join(sep, Tail(texts))

\* Faulty variant of ListRepr: items joined by "," without the space.
ListReprComma(xs) == "[" \o Join(",", [i \in DOMAIN xs |-> IntStr(xs[i])]) \o "]"

\* str(list) of a list of integers: "[e1, e2, ...]".
ListRepr(xs) == "[" \o Join(", ", [i \in DOMAIN xs |-> IntStr(xs[i])]) \o "]"

\* str(dict): "{k1: v1, k2: v2, ...}" in insertion order; a dict is modelled
\* as the sequence of its <<key, value>> items in that order.
DictRepr(d) ==
  "{" \o Join(", ", [i \in DOMAIN d |->
                       StrRepr(d[i][1]) \o ": " \o ValueRepr(d[i][2])]) \o "}"

\* print(text): the text and a newline are appended to standard output.
print(out, text) == out \o text \o "\n"

-----------------------------------------------------------------------------
(* The two functions of the module.                                        *)

\* Faulty variant of greet: the closing "!" is missing.
greet_no_bang(name) == "Hello, " \o name

\* def greet(name): return f"Hello, {name}!"   ({name} formats a str as is)
greet(name) == "Hello, " \o name \o "!"

RECURSIVE sum(_, _)
\* The builtin sum: start + x1 + x2 + ..., added left to right.
sum(xs, start) == IF xs = <<>> THEN start ELSE sum(Tail(xs), start + Head(xs))

\* Faulty variant of calculate_sum: the total starts at 1.
calculate_sum_start_one(nums) == sum(nums, 1)

\* Faulty variant of calculate_sum: the last element is left out.
calculate_sum_drop_last(nums) ==
  IF nums = <<>> THEN 0 ELSE sum(SubSeq(nums, 1, Len(nums) - 1), 0)

\* def calculate_sum(numbers): return sum(numbers)
calculate_sum(nums) == sum(nums, 0)

\* Faulty variant of calculate_sum_leaves: the body pops every element.
calculate_sum_consumes(nums) == <<>>

\* The list passed to calculate_sum, as the call leaves it: the body only
\* iterates over it.
calculate_sum_leaves(nums) == nums

-----------------------------------------------------------------------------
(* The expressions of the entry block.                                     *)

\* Faulty variant of guard: the entry block is not guarded.
guard_always(r) == TRUE

\* Faulty variant of guard: the block also requires an empty command line.
guard_without_args(r) == modname[r] = "__main__" /\ Len(argv[r]) = 1

\* Line 7: __name__ == "__main__"
guard(r) == modname[r] = "__main__"

\* Faulty variant of greet_arg: the name is taken from the command line.
greet_arg_from_argv(r) == IF Len(argv[r]) > 1 THEN argv[r][2] ELSE "World"

\* Line 9: the argument of greet is the literal "World".
greet_arg(r) == "World"

\* range(n): 0, 1, ..., n-1
range(n) == [i \in 1..n |-> i - 1]

\* Faulty variant of pow: x * n in place of x ** n.
pow_as_product(x, n) == x * n

RECURSIVE pow(_, _)
\* x ** n for n >= 0
pow(x, n) == IF n = 0 THEN 1 ELSE x * pow(x, n - 1)

\* Line 16: [x**2 for x in range(5)]
squares_expr == LET xs == range(5) IN [i \in DOMAIN xs |-> pow(xs[i], 2)]

\* Lines 20-24: the dict literal.
person_expr ==
  << <<"name", PyStr("Alice")>>, <<"age", PyInt(30)>>,
     <<"city", PyStr("Python Land")>> >>

\* The statements of the module in program order, by line.
Program == <<"L1", "L4", "L7", "L9", "L12", "L13", "L16", "L17", "L20", "L25">>

RECURSIVE IndexOf(_, _)
IndexOf(seq, x) == IF Head(seq) = x THEN 1 ELSE 1 + IndexOf(Tail(seq), x)

\* Faulty variant of succ: line 17 is skipped.
succ_skips_print(line) ==
  IF line = "L16" THEN "L20"
  ELSE LET i == IndexOf(Program, line)
       IN IF i = Len(Program) THEN "done" ELSE Program[i + 1]

\* Sequential control flow: the statement after `line`, or "done" after the
\* last one.
succ(line) ==
  LET i == IndexOf(Program, line)
  IN IF i = Len(Program) THEN "done" ELSE Program[i + 1]

-----------------------------------------------------------------------------
(* The run of the module.                                                  *)

ArgvChoices == {<<"main.py">>, <<"main.py", "Bob">>}

Init ==
  /\ modname \in [Runs -> {"__main__", "main"}]
  /\ argv \in [Runs -> ArgvChoices]
  /\ pc = [r \in Runs |-> "L1"]
  /\ bound = [r \in Runs |-> {}]
  /\ numbers = [r \in Runs |-> <<>>]
  /\ squares = [r \in Runs |-> <<>>]
  /\ person = [r \in Runs |-> <<>>]
  /\ stdout = [r \in Runs |-> ""]
  /\ calls = [r \in Runs |-> <<>>]
  /\ executed = [r \in Runs |-> <<>>]
  /\ request = <<>>
  /\ response = <<>>

\* Run r finishes the statement at `line` and goes on to `next`.
Advance(r, line, next) ==
  /\ pc' = [pc EXCEPT ![r] = next]
  /\ executed' = [executed EXCEPT ![r] = Append(@, line)]
  /\ UNCHANGED <<modname, argv, request, response>>

\* Line 1: def greet
DefGreet(r) ==
  /\ pc[r] = "L1"
  /\ bound' = [bound EXCEPT ![r] = @ \cup {"greet"}]
  /\ Advance(r, "L1", succ("L1"))
  /\ UNCHANGED <<numbers, squares, person, stdout, calls>>

\* Line 4: def calculate_sum
DefCalculateSum(r) ==
  /\ pc[r] = "L4"
  /\ bound' = [bound EXCEPT ![r] = @ \cup {"calculate_sum"}]
  /\ Advance(r, "L4", succ("L4"))
  /\ UNCHANGED <<numbers, squares, person, stdout, calls>>

\* Line 7, guard true: the entry block is entered.
GuardTrue(r) ==
  /\ pc[r] = "L7"
  /\ guard(r)
  /\ Advance(r, "L7", succ("L7"))
  /\ UNCHANGED <<bound, numbers, squares, person, stdout, calls>>

\* Line 7, guard false: the module has no statement after the block.
GuardFalse(r) ==
  /\ pc[r] = "L7"
  /\ ~guard(r)
  /\ Advance(r, "L7", "done")
  /\ UNCHANGED <<bound, numbers, squares, person, stdout, calls>>

\* Line 9: print(greet("World"))
Stmt9(r) ==
  /\ pc[r] = "L9"
  /\ LET arg == greet_arg(r)
         ret == greet(arg)
     IN /\ calls' = [calls EXCEPT
                       ![r] = Append(@, [fn |-> "greet", arg |-> arg, ret |-> ret])]
        /\ stdout' = [stdout EXCEPT ![r] = print(@, ret)]
  /\ Advance(r, "L9", succ("L9"))
  /\ UNCHANGED <<bound, numbers, squares, person>>

\* Line 12: numbers = [1, 2, 3, 4, 5]
Stmt12(r) ==
  /\ pc[r] = "L12"
  /\ numbers' = [numbers EXCEPT ![r] = <<1, 2, 3, 4, 5>>]
  /\ bound' = [bound EXCEPT ![r] = @ \cup {"numbers"}]
  /\ Advance(r, "L12", succ("L12"))
  /\ UNCHANGED <<squares, person, stdout, calls>>

\* Line 13: print(f"Sum of numbers {numbers}: {calculate_sum(numbers)}")
\* The f-string formats the list first and calls calculate_sum next.
Stmt13(r) ==
  /\ pc[r] = "L13"
  /\ LET listText == ListRepr(numbers[r])
         arg == numbers[r]
         ret == calculate_sum(arg)
     IN /\ calls' = [calls EXCEPT
                       ![r] = Append(@, [fn |-> "calculate_sum", arg |-> arg,
                                         ret |-> ret])]
        /\ numbers' = [numbers EXCEPT ![r] = calculate_sum_leaves(arg)]
        /\ stdout' = [stdout EXCEPT
                        ![r] = print(@, "Sum of numbers " \o listText \o ": "
                                        \o IntStr(ret))]
  /\ Advance(r, "L13", succ("L13"))
  /\ UNCHANGED <<bound, squares, person>>

\* Line 16: squares = [x**2 for x in range(5)]
Stmt16(r) ==
  /\ pc[r] = "L16"
  /\ squares' = [squares EXCEPT ![r] = squares_expr]
  /\ bound' = [bound EXCEPT ![r] = @ \cup {"squares"}]
  /\ Advance(r, "L16", succ("L16"))
  /\ UNCHANGED <<numbers, person, stdout, calls>>

\* Line 17: print(f"First 5 square numbers: {squares}")
Stmt17(r) ==
  /\ pc[r] = "L17"
  /\ stdout' = [stdout EXCEPT
                  ![r] = print(@, "First 5 square numbers: "
                                  \o ListRepr(squares[r]))]
  /\ Advance(r, "L17", succ("L17"))
  /\ UNCHANGED <<bound, numbers, squares, person, calls>>

\* Lines 20-24: person = {...}
Stmt20(r) ==
  /\ pc[r] = "L20"
  /\ person' = [person EXCEPT ![r] = person_expr]
  /\ bound' = [bound EXCEPT ![r] = @ \cup {"person"}]
  /\ Advance(r, "L20", succ("L20"))
  /\ UNCHANGED <<numbers, squares, stdout, calls>>

\* Line 25: print(f"Person details: {person}")
Stmt25(r) ==
  /\ pc[r] = "L25"
  /\ stdout' = [stdout EXCEPT
                  ![r] = print(@, "Person details: " \o DictRepr(person[r]))]
  /\ Advance(r, "L25", succ("L25"))
  /\ UNCHANGED <<bound, numbers, squares, person, calls>>

Step(r) ==
  \/ DefGreet(r)
  \/ DefCalculateSum(r)
  \/ GuardTrue(r)
  \/ GuardFalse(r)
  \/ Stmt9(r)
  \/ Stmt12(r)
  \/ Stmt13(r)
  \/ Stmt16(r)
  \/ Stmt17(r)
  \/ Stmt20(r)
  \/ Stmt25(r)

Next == \E r \in Runs : Step(r)

Spec == Init /\ [][Next]_vars

\* No statement blocks or waits: while some run has a statement left, the
\* interpreter executes one.
FairSpec == Spec /\ WF_vars(Next)

-----------------------------------------------------------------------------
(* The module used as a library: after `import main` (the load has ended   *)
(* with the guard false) a client calls the two functions.  A request is   *)
(* one call; the client issues a short batch of them.                      *)

Names == {"", "World", "  Ada  ", "O'Brien", "<b>x</b>", "ALICE bob", "a\\b"}

Ints == (0 - 1)..MaxVal

SeqsUpTo(n) == UNION {[1..k -> Ints] : k \in 0..n}

Shuffles(n) == {f \in [1..n -> 1..n] : \A i, j \in 1..n : f[i] = f[j] => i = j}

Permuted(xs, f) == [i \in DOMAIN xs |-> xs[f[i]]]

GreetCall(n) == [fn |-> "greet", arg |-> n]
SumCall(xs) == [fn |-> "calculate_sum", arg |-> xs]

GreetBatches == {<<GreetCall(n)>> : n \in Names}

SumBatches == {<<SumCall(xs)>> : xs \in SeqsUpTo(MaxLen) \cup {<<1, 2, 3, 4, 5>>}}

ConcatBatches ==
  {<<SumCall(st[1]), SumCall(st[2]), SumCall(st[1] \o st[2]),
     SumCall(st[2] \o st[1])>> :
     st \in {xy \in SeqsUpTo(MaxLen) \X SeqsUpTo(MaxLen) :
               Len(xy[1]) + Len(xy[2]) <= MaxLen}}

PermBatches ==
  UNION {{<<SumCall(xs), SumCall(Permuted(xs, f))>> : f \in Shuffles(Len(xs))} :
           xs \in SeqsUpTo(MaxLen)}

\* The state of the runs once every one of them is a finished import.
Imported ==
  /\ modname = [r \in Runs |-> "main"]
  /\ argv = [r \in Runs |-> <<"main.py">>]
  /\ pc = [r \in Runs |-> "done"]
  /\ bound = [r \in Runs |-> {"greet", "calculate_sum"}]
  /\ numbers = [r \in Runs |-> <<>>]
  /\ squares = [r \in Runs |-> <<>>]
  /\ person = [r \in Runs |-> <<>>]
  /\ stdout = [r \in Runs |-> ""]
  /\ calls = [r \in Runs |-> <<>>]
  /\ executed = [r \in Runs |-> <<"L1", "L4", "L7">>]

ApiInit ==
  /\ Imported
  /\ \/ request \in GreetBatches
     \/ request \in SumBatches
     \/ request \in ConcatBatches
     \/ request \in PermBatches
  /\ response = <<>>

\* The client's next call is greet(arg).
ServeGreet ==
  /\ Len(response) < Len(request)
  /\ LET call == request[Len(response) + 1]
     IN /\ call.fn = "greet"
        /\ response' = Append(response, greet(call.arg))
  /\ UNCHANGED <<request, runVars>>

\* The client's next call is calculate_sum(arg).
ServeCalculateSum ==
  /\ Len(response) < Len(request)
  /\ LET call == request[Len(response) + 1]
     IN /\ call.fn = "calculate_sum"
        /\ response' = Append(response, calculate_sum(call.arg))
  /\ UNCHANGED <<request, runVars>>

ApiNext == ServeGreet \/ ServeCalculateSum

ApiSpec == ApiInit /\ [][ApiNext]_vars

-----------------------------------------------------------------------------
(* Vocabulary of the properties.                                           *)

IsPrefix(a, b) == Len(a) <= Len(b) /\ SubSeq(b, 1, Len(a)) = a

IsSuffix(a, b) == Len(a) <= Len(b) /\ SubSeq(b, Len(b) - Len(a) + 1, Len(b)) = a

RECURSIVE LineEnd(_, _)
\* The position of the first newline of text at or after position i, or
\* Len(text) + 1 when there is none.
LineEnd(text, i) ==
  IF i > Len(text) THEN i
  ELSE IF SubSeq(text, i, i) = "\n" THEN i ELSE LineEnd(text, i + 1)

RECURSIVE SplitLines(_)
\* The lines of a text, without their newlines.
SplitLines(text) ==
  IF text = "" THEN <<>>
  ELSE LET e == LineEnd(text, 1)
       IN <<SubSeq(text, 1, e - 1)>> \o SplitLines(SubSeq(text, e + 1, Len(text)))

Count(xs, v) == Cardinality({i \in DOMAIN xs : xs[i] = v})

Elements(xs) == {xs[i] : i \in DOMAIN xs}

RECURSIVE WeightedTotal(_, _)
WeightedTotal(vals, xs) ==
  IF vals = {} THEN 0
  ELSE LET v == CHOOSE x \in vals : TRUE
       IN v * Count(xs, v) + WeightedTotal(vals \ {v}, xs)

\* The arithmetic sum of a sequence, from the multiset of its elements:
\* each distinct value times the number of times it occurs.
ArithSum(xs) == WeightedTotal(Elements(xs), xs)

SameMultiset(xs, ys) ==
  /\ Len(xs) = Len(ys)
  /\ \A v \in Elements(xs) \cup Elements(ys) : Count(xs, v) = Count(ys, v)

Direct(r) == modname[r] = "__main__"

ExpectedOutput ==
  "Hello, World!\n"
  \o "Sum of numbers [1, 2, 3, 4, 5]: 15\n"
  \o "First 5 square numbers: [0, 1, 4, 9, 16]\n"
  \o "Person details: {'name': 'Alice', 'age': 30, 'city': 'Python Land'}\n"

DirectTrace == <<"L1", "L4", "L7", "L9", "L12", "L13", "L16", "L17", "L20", "L25">>

ImportTrace == <<"L1", "L4", "L7">>

Served(i) == i \in DOMAIN response

-----------------------------------------------------------------------------
\* C1: in a direct run the output written so far is always a prefix of the
\* four expected lines, and when the run has ended it is exactly those four
\* lines, in order, with nothing before, between or after them.
C1_ExactlyFourLines ==
  \A r \in Runs :
    Direct(r) =>
      /\ IsPrefix(stdout[r], ExpectedOutput)
      /\ pc[r] = "done" =>
           /\ stdout[r] = ExpectedOutput
           /\ SplitLines(stdout[r]) =
                << "Hello, World!",
                   "Sum of numbers [1, 2, 3, 4, 5]: 15",
                   "First 5 square numbers: [0, 1, 4, 9, 16]",
                   "Person details: {'name': 'Alice', 'age': 30, 'city': 'Python Land'}" >>

C1_Witness ==
  \E r \in Runs :
    Direct(r) /\ pc[r] = "done" /\ Len(SplitLines(stdout[r])) = 4

\* C2: every value greet has returned to a client is "Hello, " followed by
\* the argument, character for character, followed by "!" and nothing else;
\* greet("World") is "Hello, World!" and greet("") is "Hello, !".
C2_GreetVerbatim ==
  \A i \in DOMAIN response :
    request[i].fn = "greet" =>
      LET name == request[i].arg
          ret == response[i]
      IN /\ Len(ret) = Len(name) + 8
         /\ SubSeq(ret, 1, 7) = "Hello, "
         /\ SubSeq(ret, 8, 7 + Len(name)) = name
         /\ SubSeq(ret, 8 + Len(name), Len(ret)) = "!"
         /\ name = "World" => ret = "Hello, World!"
         /\ name = "" => ret = "Hello, !"

C2_Witness ==
  /\ Served(1)
  /\ request[1].fn = "greet"
  /\ request[1].arg = ""
  /\ response[1] = "Hello, !"

\* C3: every value calculate_sum has returned to a client is the
\* arithmetic sum of the elements of its argument: 0 for the empty
\* sequence and 15 for [1, 2, 3, 4, 5].
C3_SumIsArithmeticSum ==
  \A i \in DOMAIN response :
    request[i].fn = "calculate_sum" =>
      LET xs == request[i].arg
      IN /\ response[i] = ArithSum(xs)
         /\ xs = <<>> => response[i] = 0
         /\ xs = <<1, 2, 3, 4, 5>> => response[i] = 15

C3_Witness ==
  /\ Served(1)
  /\ request[1].fn = "calculate_sum"
  /\ request[1].arg = <<1, 2, 3, 4, 5>>
  /\ response[1] = 15

\* C4: once squares is built it has exactly five elements, the element at
\* position i (counted from 0) is i*i, so it is [0, 1, 4, 9, 16], ascending.
C4_SquaresOfRange ==
  \A r \in Runs :
    "squares" \in bound[r] =>
      /\ Len(squares[r]) = 5
      /\ \A i \in 0..4 : squares[r][i + 1] = i * i
      /\ squares[r] = <<0, 1, 4, 9, 16>>
      /\ \A i \in 1..4 : squares[r][i] < squares[r][i + 1]

C4_Witness ==
  \E r \in Runs : Direct(r) /\ "squares" \in bound[r] /\ Len(squares[r]) = 5

\* C5: in a load by import nothing is ever written, no function is called,
\* numbers, squares and person are never bound and no statement of the entry
\* block is executed; at the end exactly the two functions are defined.
C5_ImportRunsNothing ==
  \A r \in Runs :
    ~Direct(r) =>
      /\ stdout[r] = ""
      /\ calls[r] = <<>>
      /\ bound[r] \subseteq {"greet", "calculate_sum"}
      /\ IsPrefix(executed[r], ImportTrace)
      /\ pc[r] = "done" => bound[r] = {"greet", "calculate_sum"}

C5_Witness ==
  \E r \in Runs :
    ~Direct(r) /\ pc[r] = "done" /\ executed[r] = ImportTrace

\* C6: every run ends; the statements a run has executed are always an
\* initial part of the program in order (none repeated, none skipped), and
\* at the end they are all ten statements (the four steps) of a direct run
\* or the two definitions and the guard of an import.
C6_TerminatesInOrder ==
  /\ <>(\A r \in Runs : pc[r] = "done")
  /\ [](\A r \in Runs :
          LET trace == IF Direct(r) THEN DirectTrace ELSE ImportTrace
          IN /\ IsPrefix(executed[r], trace)
             /\ pc[r] = "done" => executed[r] = trace)

C6_Witness ==
  /\ \A r \in Runs : pc[r] = "done"
  /\ \E r \in Runs : Direct(r) /\ executed[r] = DirectTrace
  /\ \E r \in Runs : ~Direct(r) /\ executed[r] = ImportTrace

\* C7: no step changes numbers, squares or person once it is bound; and
\* once the second line is out, numbers is still [1, 2, 3, 4, 5] and that
\* line shows this list and the arithmetic sum of this list.
C7_NoMutationAfterCreation ==
  /\ [][\A r \in Runs :
          /\ "numbers" \in bound[r] => numbers'[r] = numbers[r]
          /\ "squares" \in bound[r] => squares'[r] = squares[r]
          /\ "person" \in bound[r] => person'[r] = person[r]]_vars
  /\ [](\A r \in Runs :
          Len(SplitLines(stdout[r])) >= 2 =>
            /\ numbers[r] = <<1, 2, 3, 4, 5>>
            /\ SplitLines(stdout[r])[2] =
                 "Sum of numbers " \o ListRepr(numbers[r]) \o ": "
                 \o IntStr(ArithSum(numbers[r])))

C7_Witness ==
  \E r \in Runs :
    /\ pc[r] = "done"
    /\ {"numbers", "squares", "person"} \subseteq bound[r]
    /\ Len(calls[r]) = 2
    /\ numbers[r] = <<1, 2, 3, 4, 5>>

\* C8: a direct run calls greet("World") first and calculate_sum([1, 2, 3,
\* 4, 5]) second, each exactly once; the value greet returned is line 1 and
\* the value calculate_sum returned ends line 2, and each line is out as
\* soon as its call has been made.
C8_CallsOnceInOrder ==
  \A r \in Runs :
    Direct(r) =>
      LET lines == SplitLines(stdout[r])
          n == Len(calls[r])
      IN /\ n <= 2
         /\ n = 0 => lines = <<>>
         /\ n = 1 => Len(lines) = 1
         /\ n = 2 => Len(lines) >= 2
         /\ n >= 1 =>
              /\ calls[r][1].fn = "greet"
              /\ calls[r][1].arg = "World"
              /\ lines[1] = calls[r][1].ret
         /\ n >= 2 =>
              /\ calls[r][2].fn = "calculate_sum"
              /\ calls[r][2].arg = <<1, 2, 3, 4, 5>>
              /\ IsSuffix(": " \o IntStr(calls[r][2].ret), lines[2])
         /\ pc[r] = "done" => n = 2

C8_Witness ==
  \E r \in Runs :
    /\ Direct(r)
    /\ pc[r] = "done"
    /\ Len(calls[r]) = 2
    /\ calls[r][1].fn = "greet"
    /\ calls[r][2].fn = "calculate_sum"

\* C9: among the values calculate_sum has returned to a client, the value
\* for a concatenation s ++ t is the value for s plus the value for t, and
\* two arguments that are permutations of each other get the same value.
C9_AdditiveAndOrderFree ==
  \A i, j, k \in DOMAIN response :
    ( /\ request[i].fn = "calculate_sum"
      /\ request[j].fn = "calculate_sum"
      /\ request[k].fn = "calculate_sum" ) =>
      /\ request[k].arg = request[i].arg \o request[j].arg =>
           response[k] = response[i] + response[j]
      /\ SameMultiset(request[i].arg, request[j].arg) =>
           response[i] = response[j]

C9_Witness ==
  /\ Len(response) = 4
  /\ request[1].arg # <<>>
  /\ request[2].arg # <<>>
  /\ request[3].arg = request[1].arg \o request[2].arg
  /\ request[4].arg # request[3].arg
  /\ SameMultiset(request[3].arg, request[4].arg)
  /\ response[3] = response[1] + response[2]
  /\ response[4] = response[3]

\* C10: two direct runs that have executed the same number of statements
\* are at the same statement, have executed the same statements and have
\* written the same output, whatever their command lines; so they end with
\* the same output.
C10_SameOutputWhateverInput ==
  \A p, q \in Runs :
    (Direct(p) /\ Direct(q) /\ Len(executed[p]) = Len(executed[q])) =>
      /\ pc[p] = pc[q]
      /\ executed[p] = executed[q]
      /\ stdout[p] = stdout[q]

C10_Witness ==
  \E p, q \in Runs :
    /\ Direct(p) /\ Direct(q)
    /\ argv[p] # argv[q]
    /\ pc[p] = "done" /\ pc[q] = "done"
    /\ stdout[p] = stdout[q]
    /\ stdout[p] # ""

====
